---- MODULE Spec2Model ----
(***************************************************************************)
(* CarbonCheck backend (server/server.js): the footprint store, the wallet *)
(* and credit-transaction ledgers and the request handlers that change     *)
(* them.  Every `await` of a handler is one step of the request, so that   *)
(* the store operations of concurrent requests interleave as they do on    *)
(* the Node event loop against MongoDB.                                     *)
(*                                                                         *)
(* Numbers.  Emissions and scores are decimal numbers of the program.      *)
(* deriveEmissions works in units of 1/30000 (every product and quotient   *)
(* of the handler is exact in that unit for integer inputs); a value       *)
(* passed through toFixed(2) is held in hundredths, one passed through     *)
(* toFixed(1) in tenths.  +Infinity and -Infinity are the two integers     *)
(* PosInf and NegInf, above and below every finite value of the model, so  *)
(* that < and <= order them as JavaScript does.                            *)
(*                                                                         *)
(* Dates are the program's "YYYY-MM-DD" strings; the model holds the day   *)
(* number, whose integer order is the strings' lexicographic order.        *)
(***************************************************************************)
EXTENDS Integers, Sequences, FiniteSets, TLC

VARIABLES
    footprints,  \* Footprint collection: sequence of documents, insertion order
    nextId,      \* the _id the next inserted Footprint gets
    wallets,     \* Wallet collection: sequence of [user, credits]; index = _id
    txns,        \* CreditTransaction collection: sequence, insertion order
    awarded,     \* awarded[u]: sum of totalAwarded over the credit summaries
                 \* returned for user u (what the callers were told)
    req,         \* req[p]: the request process p is serving (its locals)
    started      \* number of requests started so far

vars == <<footprints, nextId, wallets, txns, awarded, req, started>>

(***************************** bounds ***************************************)
\* Requests served in a behaviour of Spec and of SpecSeq.
MaxRequests == 2
\* Requests served in a behaviour of SpecAwards.
MaxAwardRequests == 3
\* Scores of SpecPolicy: -MaxScore..MaxScore hundredths, and the infinities.
MaxScore == 2500
\* Requests served in a behaviour of SpecAdmin.
MaxAdminRequests == 3
\* Requests served in a behaviour of SpecLedger.
MaxLedgerRequests == 2

Procs == {"p1", "p2"}
Users == {"u1", "u2"}
\* The calendar days of the requests, and the day the server's clock shows
\* (new Date().toISOString().split("T")[0]).
Dates == {1, 2}
SeqDates == {1, 2, 3}
Today == 2
Ids == 1..MaxRequests

(***************************** numbers **************************************)
PosInf == 1000 * 1000 * 1000
NegInf == 0 - PosInf
\* NaN: no request body carries it (JSON has no NaN) and no comparison of
\* the model is reached with it.
NaN == PosInf + 1
\* A value of a body that is a string where a number is expected.
Text == PosInf + 2
IsFinite(x) == x # PosInf /\ x # NegInf /\ x # NaN

\* Number(x.toFixed(2)) of a non-negative x held in 1/30000: hundredths.
toFixed2(x) == (x + 150) \div 300

\* x.toFixed(1) of a non-negative x held in hundredths: tenths ("Infinity"
\* and "-Infinity" print as themselves).
toFixed1(x) == IF IsFinite(x) THEN (x + 5) \div 10 ELSE x

Has(rec, f) == f \in DOMAIN rec
\* payload.f || 0
NumOr0(rec, f) == IF Has(rec, f) THEN rec[f] ELSE 0
\* payload.f of a string field ("" when absent: no table has that key)
StrOf(rec, f) == IF Has(rec, f) THEN rec[f] ELSE ""

(************************ emissions calculator ******************************)
\* kg CO2e per km, in thousandths
VEHICLE_EMISSIONS(v) ==
    CASE v = "car-petrol" -> 171
      [] v = "car-diesel" -> 168
      [] v = "car-electric" -> 53
      [] v = "motorcycle" -> 103
      [] v = "public-transport" -> 41
      [] v = "bicycle" -> 0
      [] OTHER -> 0

\* kg CO2e per day, in hundredths
DIET_EMISSIONS(d) ==
    CASE d = "meat-heavy" -> 719
      [] d = "meat-moderate" -> 563
      [] d = "pescatarian" -> 391
      [] d = "vegetarian" -> 381
      [] d = "vegan" -> 289
      [] OTHER -> 0

\* in thousandths
ELECTRICITY_FACTOR == 475
GAS_FACTOR == 2000

\* The four values in units of 1/30000.
deriveEmissions(payload) ==
    LET travel == VEHICLE_EMISSIONS(StrOf(payload, "vehicle_type"))
                    * NumOr0(payload, "distance_daily") * 30
        food == DIET_EMISSIONS(StrOf(payload, "diet_type")) * 300
        energy == NumOr0(payload, "electricity_usage") * ELECTRICITY_FACTOR
                    + NumOr0(payload, "gas_usage") * GAS_FACTOR
    IN  [travel |-> travel, food |-> food, energy |-> energy,
         total |-> travel + food + energy]

(***************************** credit policy ********************************)
\* The first threshold taken as score <= 10.
baseCreditsTenInLowTier(score) ==
    IF score <= 1000 THEN 5
    ELSE IF score <= 2000 THEN 3
    ELSE 1

\* score in hundredths
baseCreditsForScore(score) ==
    IF score < 1000 THEN 5
    ELSE IF score <= 2000 THEN 3
    ELSE 1

(******************************* the store **********************************)
Store == [footprints |-> footprints, nextId |-> nextId,
          wallets |-> wallets, txns |-> txns, awarded |-> awarded]

\* A request's locals.  pc names the await the request is suspended at;
\* status is the HTTP status of the last response of this process and reply
\* the admin summary it carried (<<>>: none).
IdleReq == [op |-> "none", pc |-> "idle", status |-> 0, user |-> "",
            date |-> 0, score |-> 0, base |-> 0, bonus |-> 0,
            wid |-> 0, credits |-> 0, prev |-> <<>>, body |-> <<>>,
            reply |-> <<>>]

\* res.status(code).json(...): the handler returns, its locals are gone.
Respond(code) == [IdleReq EXCEPT !.status = code]

Out(S, r) == [S |-> S, r |-> r]

\* Footprint.findOne({user, date}) of line 253: is there such a document?
alreadySubmitted(fps, user, date) ==
    \E i \in 1..Len(fps) : fps[i].user = user /\ fps[i].date = date

\* Footprint.findOne({user, date: {$lt: currentDate}}).sort({date: -1}): the
\* documents of the user dated before currentDate that carry the greatest
\* such date.  The sort leaves the order of equal dates open; the store
\* returns one of them.
PreviousCandidates(fps, user, currentDate) ==
    LET Before(d) == d.user = user /\ d.date < currentDate
        before == SelectSeq(fps, Before)
        Latest(d) == \A j \in 1..Len(before) : before[j].date <= d.date
    IN  SelectSeq(before, Latest)

\* <<>> is null, <<s>> the number s; k picks among documents of equal date.
getPreviousScore(fps, user, currentDate, k) ==
    LET cands == PreviousCandidates(fps, user, currentDate)
    IN  IF Len(cands) = 0 THEN <<>>
        ELSE LET prev == cands[((k - 1) % Len(cands)) + 1]
             IN  IF Has(prev, "total_score") THEN <<prev.total_score>> ELSE <<>>

\* A bonus of 3.
bonusCreditsThree(score, previousScore) ==
    IF previousScore # <<>> /\ score < previousScore[1] THEN 3 ELSE 0

\* previousScore !== null && numericScore < previousScore ? 2 : 0
bonusCreditsFor(score, previousScore) ==
    IF previousScore # <<>> /\ score < previousScore[1] THEN 2 ELSE 0

\* formatScore(value): one decimal place, "n/a" (<<>>) for a non-number
formatScore(value) == IF value # <<>> THEN <<toFixed1(value[1])>> ELSE <<>>

\* Wallet.findOne({user}): the _id of the first wallet of the user, 0 if none
findWallet(ws, user) ==
    IF \E i \in 1..Len(ws) : ws[i].user = user
    THEN CHOOSE i \in 1..Len(ws) :
            /\ ws[i].user = user
            /\ \A j \in 1..(i - 1) : ws[j].user # user
    ELSE 0

\* No index on Wallet.user: every insert goes through.
walletInsertAlways(ws, user) == TRUE

\* The unique index on Wallet.user (walletSchema): may a wallet of this user
\* be inserted?
walletInsertAllowed(ws, user) == \A i \in 1..Len(ws) : ws[i].user # user

(************************** the handlers' steps *****************************)
(* Each step takes the store S and the request's locals r and returns the  *)
(* store and the locals after it, Out(S', r').                             *)

\* The submission without the lookup of a document of the same user and date.
submitStartNoLookup(S, body) ==
    IF StrOf(body, "user") = "" THEN Out(S, Respond(400))
    ELSE LET date == IF NumOr0(body, "date") = 0 THEN Today ELSE body.date
             b == [date |-> date] @@ body
         IN  Out(S, [IdleReq EXCEPT !.op = "submit", !.pc = "save",
                                    !.user = b.user, !.date = b.date,
                                    !.body = b])

\* POST /api/footprints, to its first await: the guards on the body and the
\* lookup of a document of the same user and date.
submitStart(S, body) ==
    IF StrOf(body, "user") = "" THEN Out(S, Respond(400))
    ELSE LET date == IF NumOr0(body, "date") = 0 THEN Today ELSE body.date
             b == [date |-> date] @@ body
         IN  IF alreadySubmitted(S.footprints, b.user, b.date)
             THEN Out(S, Respond(409))
             ELSE Out(S, [IdleReq EXCEPT !.op = "submit", !.pc = "save",
                                         !.user = b.user, !.date = b.date,
                                         !.body = b])

\* typeof v === "number": every value but a text
IsNumber(v) == v # Text

\* The body whose every emission is a number kept, every other emission taken
\* from deriveEmissions.
backfillKeepingAll(body) ==
    LET e == deriveEmissions(body)
    IN  body @@ [travel_emissions |-> toFixed2(e.travel),
                 food_emissions |-> toFixed2(e.food),
                 energy_emissions |-> toFixed2(e.energy),
                 total_score |-> toFixed2(e.total)]

\* The body with each emission that is not a number (absent, or of another
\* type) set from deriveEmissions.
backfill(body) ==
    LET e == deriveEmissions(body)
        Kept(f, computed) ==
            IF Has(body, f) /\ IsNumber(body[f]) THEN body[f] ELSE computed
    IN  [travel_emissions |-> Kept("travel_emissions", toFixed2(e.travel)),
         food_emissions |-> Kept("food_emissions", toFixed2(e.food)),
         energy_emissions |-> Kept("energy_emissions", toFixed2(e.energy)),
         total_score |-> Kept("total_score", toFixed2(e.total))] @@ body

\* The guard of awardCreditsForFootprint: !user || Number.isNaN(numericScore)
awardThrows(user, score) == user = "" \/ score = NaN

\* entry.save() of line 285, then awardCreditsForFootprint up to its first
\* await (the guard on user and score, dateLabel, baseCredits).
submitSave(S, r) ==
    LET doc == [id |-> S.nextId] @@ backfill(r.body)
        S1 == [S EXCEPT !.footprints = Append(@, doc), !.nextId = @ + 1]
    IN  IF awardThrows(r.user, doc.total_score) THEN Out(S1, Respond(500))
        ELSE Out(S1, [r EXCEPT !.pc = "previous", !.body = <<>>,
                               !.score = doc.total_score,
                               !.base = baseCreditsForScore(doc.total_score)])

\* await getPreviousScore(user, dateLabel), then bonusCredits
awardPrevious(S, r, k) ==
    LET previousScore == getPreviousScore(S.footprints, r.user, r.date, k)
    IN  Out(S, [r EXCEPT !.pc = "insert",
                         !.bonus = bonusCreditsFor(r.score, previousScore),
                         !.prev = formatScore(previousScore)])

\* The bonus document pushed whatever the bonus.
transactionsAlwaysBonus(r) ==
    <<[user |-> r.user, amount |-> r.base, type |-> "earn",
       reason |-> <<"Daily footprint", r.date, toFixed1(r.score)>>],
      [user |-> r.user, amount |-> r.bonus, type |-> "bonus",
       reason |-> <<"Improved score vs previous day", r.prev>>]>>

\* The documents of transactionsToPersist.
transactionsToPersist(r) ==
    <<[user |-> r.user, amount |-> r.base, type |-> "earn",
       reason |-> <<"Daily footprint", r.date, toFixed1(r.score)>>]>>
    \o (IF r.bonus > 0
        THEN <<[user |-> r.user, amount |-> r.bonus, type |-> "bonus",
                reason |-> <<"Improved score vs previous day", r.prev>>]>>
        ELSE <<>>)

\* The award that goes on to the wallet with no transaction inserted.
awardInsertNothing(S, r) ==
    Out(S, [r EXCEPT !.pc = "ensure", !.prev = <<>>])

\* await CreditTransaction.insertMany(transactionsToPersist)
awardInsert(S, r) ==
    Out([S EXCEPT !.txns = @ \o transactionsToPersist(r)],
        [r EXCEPT !.pc = "ensure", !.prev = <<>>])

\* ensureWallet: await Wallet.findOne({user})
ensureFind(S, r) ==
    LET w == findWallet(S.wallets, r.user)
    IN  IF w = 0 THEN Out(S, [r EXCEPT !.pc = "create"])
        ELSE IF r.op = "wallet" THEN Out(S, Respond(200))
        ELSE Out(S, [r EXCEPT !.pc = "credit", !.wid = w,
                              !.credits = S.wallets[w].credits])

\* ensureWallet: await Wallet.create({user, credits: 0}); the unique index
\* on user rejects a second wallet of the user, and the handler answers 500.
ensureCreate(S, r) ==
    IF ~walletInsertAllowed(S.wallets, r.user) THEN Out(S, Respond(500))
    ELSE LET S1 == [S EXCEPT !.wallets = Append(@, [user |-> r.user, credits |-> 0])]
         IN  IF r.op = "wallet" THEN Out(S1, Respond(200))
             ELSE Out(S1, [r EXCEPT !.pc = "credit", !.wid = Len(S1.wallets),
                                    !.credits = 0])

\* The balance raised by the bonus only.
walletSaveWithoutBase(S, r) ==
    Out([S EXCEPT !.wallets[r.wid].credits = r.credits + r.bonus,
                  !.awarded[r.user] = @ + r.base + r.bonus],
        Respond(200))

\* wallet.credits += baseCredits + bonusCredits; await wallet.save(): the
\* in-memory balance is written to the wallet's document.
walletSave(S, r) ==
    Out([S EXCEPT !.wallets[r.wid].credits = r.credits + r.base + r.bonus,
                  !.awarded[r.user] = @ + r.base + r.bonus],
        Respond(200))

\* The manual award with no look at the previous score: never a bonus.
manualStartNoBonus(S, body, k) ==
    IF StrOf(body, "user") = "" \/ ~Has(body, "score") THEN Out(S, Respond(400))
    ELSE IF awardThrows(body.user, body.score) THEN Out(S, Respond(500))
    ELSE LET dateLabel == IF NumOr0(body, "date") = 0 THEN Today ELSE body.date
         IN  Out(S, [IdleReq EXCEPT !.op = "manual", !.pc = "insert",
                                    !.user = body.user,
                                    !.date = dateLabel, !.score = body.score,
                                    !.base = baseCreditsForScore(body.score)])

\* POST /api/credits/earn, to the first await of awardCreditsForFootprint and
\* through it (getPreviousScore).
manualStart(S, body, k) ==
    IF StrOf(body, "user") = "" \/ ~Has(body, "score") THEN Out(S, Respond(400))
    ELSE IF awardThrows(body.user, body.score) THEN Out(S, Respond(500))
    ELSE LET dateLabel == IF NumOr0(body, "date") = 0 THEN Today ELSE body.date
             r == [IdleReq EXCEPT !.op = "manual", !.user = body.user,
                                  !.date = dateLabel, !.score = body.score,
                                  !.base = baseCreditsForScore(body.score)]
         IN  awardPrevious(S, r, k)

\* GET /api/credits/wallet/:user, to its first await and through it.
walletStart(S, user) ==
    ensureFind(S, [IdleReq EXCEPT !.op = "wallet", !.user = user])

\* PUT /api/footprints/:id
updateFootprint(S, id, body) ==
    LET e == deriveEmissions(body)
        updates == [travel_emissions |-> toFixed2(e.travel),
                    food_emissions |-> toFixed2(e.food),
                    energy_emissions |-> toFixed2(e.energy),
                    total_score |-> toFixed2(e.total)] @@ body
    IN  IF \E i \in 1..Len(S.footprints) : S.footprints[i].id = id
        THEN Out([S EXCEPT !.footprints =
                     [i \in 1..Len(@) |->
                        IF @[i].id = id THEN updates @@ @[i] ELSE @[i]]],
                 Respond(200))
        ELSE Out(S, Respond(404))

\* The deletion that answers 404 when no document has the id.
deleteFootprintOrNotFound(S, id) ==
    LET Keep(d) == d.id # id
    IN  IF \E i \in 1..Len(S.footprints) : S.footprints[i].id = id
        THEN Out([S EXCEPT !.footprints = SelectSeq(@, Keep)], Respond(200))
        ELSE Out(S, Respond(404))

\* DELETE /api/footprints/:id: findByIdAndDelete resolves to null when no
\* document has the id, and the handler answers 200 either way.
deleteFootprint(S, id) ==
    LET Keep(d) == d.id # id
    IN  Out([S EXCEPT !.footprints = SelectSeq(@, Keep)], Respond(200))

(***************************** admin summary *******************************)
\* adminEmails: the addresses of ADMIN_EMAILS
AdminEmails == {"admin"}
isAdmin(email) == email # "" /\ email \in AdminEmails

\* The _id values of the $group stage: the users that have a document.
GroupIds(fps) == { fps[i].user : i \in 1..Len(fps) }

\* The orders in which the aggregation may return its groups ($group fixes
\* none): the sequences that hold every element of ids once.
Orders(ids) ==
    { o \in [1..Cardinality(ids) -> ids] : \A a \in ids : \E i \in DOMAIN o : o[i] = a }

RECURSIVE SumScores(_, _)
SumScores(fps, user) ==
    IF Len(fps) = 0 THEN 0
    ELSE (IF Head(fps).user = user THEN Head(fps).total_score ELSE 0)
         + SumScores(Tail(fps), user)

\* One group of Footprint.aggregate: averageScore is the quotient sum / n,
\* held as the pair; entries is n.
groupOf(fps, user) ==
    LET n == Cardinality({ i \in 1..Len(fps) : fps[i].user = user })
    IN  [id |-> user, averageScore |-> [sum |-> SumScores(fps, user), n |-> n],
         entries |-> n]

\* avg?.averageScore || null: null (<<>>) for no group and for a falsy
\* quotient, which is the quotient 0.
averageOrNull(groups, user) ==
    IF \E i \in 1..Len(groups) : groups[i].id = user
    THEN LET g == groups[CHOOSE i \in 1..Len(groups) : groups[i].id = user]
         IN  IF g.averageScore.sum = 0 THEN <<>> ELSE <<g.averageScore>>
    ELSE <<>>

\* avg?.entries || 0
entriesOr0(groups, user) ==
    IF \E i \in 1..Len(groups) : groups[i].id = user
    THEN groups[CHOOSE i \in 1..Len(groups) : groups[i].id = user].entries
    ELSE 0

\* Array.from(new Set(list)): the first occurrence of each element, in order.
RECURSIVE setOrder(_)
setOrder(list) ==
    IF Len(list) = 0 THEN <<>>
    ELSE LET init == setOrder(SubSeq(list, 1, Len(list) - 1))
             last == list[Len(list)]
         IN  IF \E i \in 1..Len(init) : init[i] = last THEN init
             ELSE Append(init, last)

\* employees[]: wallet?.credits || 0 of wallets.find, and the group's values.
employeesOf(ws, groups) ==
    LET users == setOrder([i \in 1..Len(ws) |-> ws[i].user]
                          \o [i \in 1..Len(groups) |-> groups[i].id])
    IN  [i \in 1..Len(users) |->
            [user |-> users[i],
             credits |-> IF findWallet(ws, users[i]) = 0 THEN 0
                         ELSE ws[findWallet(ws, users[i])].credits,
             averageScore |-> averageOrNull(groups, users[i]),
             entries |-> entriesOr0(groups, users[i])]]

\* The ranking with equal credits in the opposite of their employees[] order.
RECURSIVE sortTiesReversed(_)
sortTiesReversed(emps) ==
    IF Len(emps) = 0 THEN <<>>
    ELSE LET sorted == sortTiesReversed(SubSeq(emps, 1, Len(emps) - 1))
             e == emps[Len(emps)]
             n == Cardinality({ i \in 1..Len(sorted) : sorted[i].credits > e.credits })
         IN  SubSeq(sorted, 1, n) \o <<e>> \o SubSeq(sorted, n + 1, Len(sorted))

\* [...employees].sort((a, b) => b.credits - a.credits): Array.prototype.sort
\* is stable; each element goes behind those of at least its credits.
RECURSIVE sortByCredits(_)
sortByCredits(emps) ==
    IF Len(emps) = 0 THEN <<>>
    ELSE LET sorted == sortByCredits(SubSeq(emps, 1, Len(emps) - 1))
             e == emps[Len(emps)]
             n == Cardinality({ i \in 1..Len(sorted) : sorted[i].credits >= e.credits })
         IN  SubSeq(sorted, 1, n) \o <<e>> \o SubSeq(sorted, n + 1, Len(sorted))

RECURSIVE totalCreditsOf(_)
totalCreditsOf(emps) ==
    IF Len(emps) = 0 THEN 0
    ELSE Head(emps).credits + totalCreditsOf(Tail(emps))

\* GET /api/admin/credits; order is the order of the aggregation's groups.
adminSummary(S, requester, order) ==
    IF ~isAdmin(requester) THEN Out(S, Respond(403))
    ELSE LET groups == [i \in 1..Len(order) |-> groupOf(S.footprints, order[i])]
             employees == employeesOf(S.wallets, groups)
             sorted == sortByCredits(employees)
             ranking == [i \in 1..Len(sorted) |-> [rank |-> i] @@ sorted[i]]
         IN  Out(S, [Respond(200) EXCEPT !.reply =
                        <<[totalEmployees |-> Len(employees),
                           totalCredits |-> totalCreditsOf(employees),
                           employees |-> employees,
                           ranking |-> ranking]>>])

\* A handler run from the await it is suspended at to its response, no other
\* request's step in between.
StepAt(S, r, k) ==
    CASE r.pc = "save" -> submitSave(S, r)
      [] r.pc = "previous" -> awardPrevious(S, r, k)
      [] r.pc = "insert" -> awardInsert(S, r)
      [] r.pc = "ensure" -> ensureFind(S, r)
      [] r.pc = "create" -> ensureCreate(S, r)
      [] r.pc = "credit" -> walletSave(S, r)

RECURSIVE Run(_, _, _)
Run(S, r, k) ==
    IF r.pc = "idle" THEN Out(S, r)
    ELSE LET o == StepAt(S, r, k) IN Run(o.S, o.r, k)

(***************************** request inputs *******************************)
\* The lifestyle inputs of a submission: 6.31 in total (5 credits), 24.49
\* in total (1 credit), and a body that supplies its own total, 10.00
\* (3 credits).
PayloadVegan ==
    [vehicle_type |-> "car-petrol", distance_daily |-> 20, diet_type |-> "vegan"]
PayloadHeavy ==
    [vehicle_type |-> "car-petrol", distance_daily |-> 50, diet_type |-> "meat-heavy",
     electricity_usage |-> 300, gas_usage |-> 60]
PayloadOwnTotal ==
    [diet_type |-> "vegetarian", total_score |-> 1000]
\* a body whose total is a text and whose travel emissions are its own:
\* total 0 + 2.89 + 0.07 = 2.96 computed (5 credits), travel 1.50 kept
PayloadTextTotal ==
    [diet_type |-> "vegan", gas_usage |-> 1, total_score |-> Text,
     travel_emissions |-> 150]
\* a day by bicycle with nothing else stated: 0 in total (5 credits)
PayloadBicycle ==
    [vehicle_type |-> "bicycle", distance_daily |-> 12]

SubmitBodiesOf(users, dates, payloads) ==
    { [user |-> u, date |-> d] @@ pl : u \in users, d \in dates, pl \in payloads }
    \cup { [user |-> u] @@ pl : u \in users, pl \in payloads }
    \cup payloads

ManualBodiesOf(users, dates, scores) ==
    { [user |-> u, score |-> s, date |-> d] : u \in users, s \in scores, d \in dates }
    \cup { [user |-> u, score |-> s] : u \in users, s \in scores }
    \cup { [score |-> s] : s \in scores }
    \cup { [user |-> u] : u \in users }

\* Spec and SpecAwards
SubmitBodies == SubmitBodiesOf(Users, Dates, {PayloadVegan, PayloadHeavy})
ManualBodies == ManualBodiesOf(Users, Dates, {631, PosInf})
UpdateBodies == { [distance_daily |-> 10] }

\* SpecSeq
SeqSubmitBodies ==
    SubmitBodiesOf(Users, SeqDates, {PayloadVegan, PayloadHeavy, PayloadOwnTotal})
SeqManualBodies == ManualBodiesOf(Users, SeqDates, {631, 1000, PosInf, NegInf})
SeqUpdateBodies ==
    { [distance_daily |-> 10],
      [vehicle_type |-> "bicycle", diet_type |-> "vegan"],
      [electricity_usage |-> 100, gas_usage |-> 0] }

\* SpecLedger
LedgerSubmitBodies ==
    SubmitBodiesOf(Users, Dates,
                   {PayloadVegan, PayloadHeavy, PayloadOwnTotal, PayloadTextTotal})

\* SpecAdmin
AdminSubmitBodies ==
    SubmitBodiesOf(Users, {1}, {PayloadVegan, PayloadHeavy, PayloadBicycle})
AdminManualBodies == ManualBodiesOf(Users, {1}, {631})
Requesters == {"", "u1", "admin"}

\* SpecPolicy
ScoreGrid == ((0 - MaxScore)..MaxScore) \cup {NegInf, PosInf}

(******************************* actions ************************************)
Init ==
    /\ footprints = <<>>
    /\ nextId = 1
    /\ wallets = <<>>
    /\ txns = <<>>
    /\ awarded = [u \in Users |-> 0]
    /\ req = [p \in Procs |-> IdleReq]
    /\ started = 0

\* The step's result becomes the state.
Becomes(p, out) ==
    /\ footprints' = out.S.footprints
    /\ nextId' = out.S.nextId
    /\ wallets' = out.S.wallets
    /\ txns' = out.S.txns
    /\ awarded' = out.S.awarded
    /\ req' = [req EXCEPT ![p] = out.r]

\* A request arrives at process p, which serves none.
Arrives(p) ==
    /\ req[p].pc = "idle"
    /\ started' = started + 1

\* Which of the documents of equal date a sorted findOne returns.
Picks == 1..(Len(footprints) + 1)

SubmitFootprint(p, body) ==
    /\ Arrives(p)
    /\ Becomes(p, submitStart(Store, body))

SubmitSave(p) ==
    /\ req[p].pc = "save"
    /\ Becomes(p, submitSave(Store, req[p]))
    /\ UNCHANGED started

AwardPrevious(p, k) ==
    /\ req[p].pc = "previous"
    /\ Becomes(p, awardPrevious(Store, req[p], k))
    /\ UNCHANGED started

AwardInsert(p) ==
    /\ req[p].pc = "insert"
    /\ Becomes(p, awardInsert(Store, req[p]))
    /\ UNCHANGED started

EnsureWalletFind(p) ==
    /\ req[p].pc = "ensure"
    /\ Becomes(p, ensureFind(Store, req[p]))
    /\ UNCHANGED started

EnsureWalletCreate(p) ==
    /\ req[p].pc = "create"
    /\ Becomes(p, ensureCreate(Store, req[p]))
    /\ UNCHANGED started

WalletSave(p) ==
    /\ req[p].pc = "credit"
    /\ Becomes(p, walletSave(Store, req[p]))
    /\ UNCHANGED started

ManualAward(p, body, k) ==
    /\ Arrives(p)
    /\ Becomes(p, manualStart(Store, body, k))

GetWallet(p, user) ==
    /\ Arrives(p)
    /\ Becomes(p, walletStart(Store, user))

UpdateFootprint(p, id, body) ==
    /\ Arrives(p)
    /\ Becomes(p, updateFootprint(Store, id, body))

DeleteFootprint(p, id) ==
    /\ Arrives(p)
    /\ Becomes(p, deleteFootprint(Store, id))

\* No more than limit requests are served in a behaviour.
Admits(limit) == started < limit

\* Every handler, its requests served concurrently by the processes.
Next ==
    \E p \in Procs :
        \/ \E body \in SubmitBodies :
              Admits(MaxRequests) /\ SubmitFootprint(p, body)
        \/ \E body \in ManualBodies, k \in Picks :
              Admits(MaxRequests) /\ ManualAward(p, body, k)
        \/ \E user \in Users :
              Admits(MaxRequests) /\ GetWallet(p, user)
        \/ \E id \in Ids, body \in UpdateBodies :
              Admits(MaxRequests) /\ UpdateFootprint(p, id, body)
        \/ \E id \in Ids :
              Admits(MaxRequests) /\ DeleteFootprint(p, id)
        \/ SubmitSave(p)
        \/ \E k \in Picks : AwardPrevious(p, k)
        \/ AwardInsert(p)
        \/ EnsureWalletFind(p)
        \/ EnsureWalletCreate(p)
        \/ WalletSave(p)

Spec == Init /\ [][Next]_vars

\* Submissions and awards only, one request more.
NextAwards ==
    \E p \in Procs :
        \/ \E body \in SubmitBodies :
              Admits(MaxAwardRequests) /\ SubmitFootprint(p, body)
        \/ \E body \in ManualBodies, k \in Picks :
              Admits(MaxAwardRequests) /\ ManualAward(p, body, k)
        \/ SubmitSave(p)
        \/ \E k \in Picks : AwardPrevious(p, k)
        \/ AwardInsert(p)
        \/ EnsureWalletFind(p)
        \/ EnsureWalletCreate(p)
        \/ WalletSave(p)

SpecAwards == Init /\ [][NextAwards]_vars

(************************ one request at a time *****************************)
Quiescent == \A p \in Procs : req[p].pc = "idle"

\* The process that serves the requests of SpecSeq.
SeqProc == "p1"

SeqSubmitFootprint(p, body, k) ==
    /\ Arrives(p)
    /\ LET o == submitStart(Store, body) IN Becomes(p, Run(o.S, o.r, k))

SeqManualAward(p, body, k) ==
    /\ Arrives(p)
    /\ LET o == manualStart(Store, body, k) IN Becomes(p, Run(o.S, o.r, k))

SeqGetWallet(p, user) ==
    /\ Arrives(p)
    /\ LET o == walletStart(Store, user) IN Becomes(p, Run(o.S, o.r, 1))

NextSeq ==
    \E p \in {SeqProc} :
        \/ \E body \in SeqSubmitBodies, k \in Picks :
              Admits(MaxRequests) /\ SeqSubmitFootprint(p, body, k)
        \/ \E body \in SeqManualBodies, k \in Picks :
              Admits(MaxRequests) /\ SeqManualAward(p, body, k)
        \/ \E user \in Users :
              Admits(MaxRequests) /\ SeqGetWallet(p, user)
        \/ \E id \in Ids, body \in SeqUpdateBodies :
              Admits(MaxRequests) /\ UpdateFootprint(p, id, body)
        \/ \E id \in Ids :
              Admits(MaxRequests) /\ DeleteFootprint(p, id)

SpecSeq == Init /\ [][NextSeq]_vars

(******************* submissions and awards, one at a time ******************)
NextLedger ==
    \E p \in {SeqProc} :
        \/ \E body \in LedgerSubmitBodies, k \in Picks :
              Admits(MaxLedgerRequests) /\ SeqSubmitFootprint(p, body, k)
        \/ \E body \in ManualBodies, k \in Picks :
              Admits(MaxLedgerRequests) /\ SeqManualAward(p, body, k)

SpecLedger == Init /\ [][NextLedger]_vars

(*************************** the admin's summary ****************************)
AdminSummary(p, requester, order) ==
    /\ Arrives(p)
    /\ Becomes(p, adminSummary(Store, requester, order))

\* One request at a time, the admin summary among them.
NextAdmin ==
    \E p \in {SeqProc} :
        \/ \E body \in AdminSubmitBodies, k \in Picks :
              Admits(MaxAdminRequests) /\ SeqSubmitFootprint(p, body, k)
        \/ \E body \in AdminManualBodies, k \in Picks :
              Admits(MaxAdminRequests) /\ SeqManualAward(p, body, k)
        \/ \E user \in Users :
              Admits(MaxAdminRequests) /\ SeqGetWallet(p, user)
        \/ \E id \in Ids, body \in UpdateBodies :
              Admits(MaxAdminRequests) /\ UpdateFootprint(p, id, body)
        \/ \E id \in Ids :
              Admits(MaxAdminRequests) /\ DeleteFootprint(p, id)
        \/ \E requester \in Requesters, order \in Orders(GroupIds(footprints)) :
              Admits(MaxAdminRequests) /\ AdminSummary(p, requester, order)

SpecAdmin == Init /\ [][NextAdmin]_vars

(****************************** credit policy *******************************)
\* The score of an award is any number; baseCredits is computed from it
\* (line 154).
InitPolicy ==
    /\ footprints = <<>>
    /\ nextId = 1
    /\ wallets = <<>>
    /\ txns = <<>>
    /\ awarded = [u \in Users |-> 0]
    /\ started = 0
    /\ \E s \in ScoreGrid : req = [p \in Procs |-> [IdleReq EXCEPT !.score = s]]

BaseCredits(p) ==
    /\ req[p].base = 0
    /\ req' = [req EXCEPT ![p].base = baseCreditsForScore(req[p].score)]
    /\ UNCHANGED <<footprints, nextId, wallets, txns, awarded, started>>

NextPolicy == \E p \in Procs : BaseCredits(p)

SpecPolicy == InitPolicy /\ [][NextPolicy]_vars

(******************************** claims ************************************)
\* The balance of user u in the store; a user with no wallet counts as 0.
CreditsOf(u) ==
    IF findWallet(wallets, u) = 0 THEN 0 ELSE wallets[findWallet(wallets, u)].credits

RECURSIVE SumAmounts(_, _)
SumAmounts(ts, u) ==
    IF Len(ts) = 0 THEN 0
    ELSE (IF Head(ts).user = u THEN Head(ts).amount ELSE 0) + SumAmounts(Tail(ts), u)

FootprintsOf(u) == { i \in 1..Len(footprints) : footprints[i].user = u }
TxnsOf(u) == { i \in 1..Len(txns) : txns[i].user = u }

\* C1: in every reachable state at most one footprint record exists for a
\* (user, date) pair, also when submissions of the same pair run concurrently.
C1_OneRecordPerUserDate ==
    \A i, j \in 1..Len(footprints) :
        (footprints[i].user = footprints[j].user
            /\ footprints[i].date = footprints[j].date) => i = j

\* C2: at every point at which the store can be observed, each user's
\* wallet balance equals the sum of the amounts of the user's transactions.
C2_Reconciled ==
    \A u \in Users : CreditsOf(u) = SumAmounts(txns, u)

\* C3: once the awards for a user have all completed, the user's balance is
\* the initial balance (0) plus the totalAwarded of every award that
\* completed successfully.
C3_NoLostUpdate ==
    Quiescent => \A u \in Users : CreditsOf(u) = awarded[u]

\* C4: after any sequence of submissions and manual awards, at most one
\* 'earn' transaction refers to a given date for a given user.
C4_OneAwardPerUserDate ==
    Quiescent =>
        \A u \in Users, d \in Dates :
            Cardinality({ i \in TxnsOf(u) :
                            txns[i].type = "earn" /\ txns[i].reason[2] = d }) <= 1

\* C5: base credits follow the score thresholds for every finite score:
\* 5 below 10, 3 from 10 to 20 (both included), 1 above 20.
C5_BaseCreditThresholds ==
    \A p \in Procs :
        (req[p].base # 0 /\ IsFinite(req[p].score)) =>
            /\ req[p].score < 1000 => req[p].base = 5
            /\ (1000 <= req[p].score /\ req[p].score <= 2000) => req[p].base = 3
            /\ req[p].score > 2000 => req[p].base = 1

\* C5's case: the credits of the boundary score 20 have been computed.
C5_Witness ==
    \E p \in Procs : req[p].score = 2000 /\ req[p].base = 3

\* The user has a record dated before date, and the latest-dated such record
\* has a total score above score.
LatestBeforeIsWorse(fps, user, date, score) ==
    \E i \in 1..Len(fps) :
        /\ fps[i].user = user /\ fps[i].date < date
        /\ \A j \in 1..Len(fps) :
              (fps[j].user = user /\ fps[j].date < date) => fps[j].date <= fps[i].date
        /\ fps[i].total_score > score

\* C6: the step of an award that looks up the previous score grants bonus 2
\* exactly when the user has a record dated before the award's date and the
\* latest-dated such record has a greater total score; otherwise bonus 0.
C6_BonusRule ==
    [][\A p \in Procs :
          (req[p].pc # "insert" /\ req'[p].pc = "insert") =>
              req'[p].bonus =
                  IF LatestBeforeIsWorse(footprints, req'[p].user,
                                         req'[p].date, req'[p].score)
                  THEN 2 ELSE 0]_vars

\* C7: a successful submission of a user who has no footprint record and no
\* wallet leaves exactly one footprint record of the user, exactly one
\* transaction of the user, of type earn and of the base credits of the
\* stored total score, and a new wallet of the user that holds that amount
\* (the handler run from any state reached with one request at a time).
C7_FirstSubmission ==
    \A body \in SeqSubmitBodies :
        ( /\ StrOf(body, "user") # ""
          /\ FootprintsOf(body.user) = {}
          /\ findWallet(wallets, body.user) = 0 )
        =>
        \A k \in Picks :
          LET start == submitStart(Store, body)
              o == Run(start.S, start.r, k)
              u == body.user
              recs == { i \in 1..Len(o.S.footprints) : o.S.footprints[i].user = u }
              ts == { i \in 1..Len(o.S.txns) : o.S.txns[i].user = u }
              w == findWallet(o.S.wallets, u)
          IN  o.r.status = 200 =>
              /\ Cardinality(recs) = 1
              /\ \A i \in recs :
                    /\ o.S.footprints[i].date =
                          (IF Has(body, "date") THEN body.date ELSE Today)
                    /\ Cardinality(ts) = 1
                    /\ \A t \in ts :
                          /\ o.S.txns[t].type = "earn"
                          /\ o.S.txns[t].amount =
                                (IF o.S.footprints[i].total_score < 1000 THEN 5
                                 ELSE IF o.S.footprints[i].total_score <= 2000 THEN 3
                                 ELSE 1)
                          /\ w # 0
                          /\ o.S.wallets[w].credits = o.S.txns[t].amount
              /\ Cardinality({ i \in 1..Len(o.S.wallets) : o.S.wallets[i].user = u }) = 1

\* C7's case: the first request was the submission of the spec's example
\* (car-petrol, 20 km, vegan): total 6.31, one earn of 5, a wallet of 5.
C7_Witness ==
    /\ started = 1
    /\ req[SeqProc].status = 200
    /\ Len(footprints) = 1
    /\ footprints[1].total_score = 631
    /\ footprints[1].travel_emissions = 342
    /\ footprints[1].food_emissions = 289
    /\ footprints[1].energy_emissions = 0
    /\ Len(txns) = 1 /\ txns[1].type = "earn" /\ txns[1].amount = 5
    /\ wallets = <<[user |-> footprints[1].user, credits |-> 5]>>

\* C8: no step makes the stored balance of a wallet smaller.
C8_BalanceMonotonic ==
    [][\A i \in 1..Len(wallets) : wallets'[i].credits >= wallets[i].credits]_vars

\* The emissions deriveEmissions gives for the inputs the document holds.
EmissionsOfInputs(doc) ==
    LET e == deriveEmissions(doc)
    IN  [travel_emissions |-> toFixed2(e.travel), food_emissions |-> toFixed2(e.food),
         energy_emissions |-> toFixed2(e.energy), total_score |-> toFixed2(e.total)]

\* C9: after an update of a record with some of its input fields, the four
\* stored emission fields are those deriveEmissions gives for the record's
\* complete inputs after the update.
C9_UpdateRecomputesFromMerged ==
    [][\A p \in Procs, id \in Ids, body \in UpdateBodies :
          (UpdateFootprint(p, id, body) /\ req'[p].status = 200) =>
              \A i \in 1..Len(footprints') :
                  footprints'[i].id = id =>
                      \A f \in DOMAIN EmissionsOfInputs(footprints'[i]) :
                          footprints'[i][f] = EmissionsOfInputs(footprints'[i])[f]
      ]_vars

\* C10: an award whose user is missing or whose score is not a finite number
\* fails and appends no transaction: every earn transaction names a user
\* and states a score that is a finite number.
C10_NonFiniteScoreRejected ==
    \A i \in 1..Len(txns) :
        txns[i].type = "earn" => (txns[i].user # "" /\ IsFinite(txns[i].reason[3]))

\* The date a submission or an award is for: the body's, or the server's day.
DateOf(body) == IF NumOr0(body, "date") = 0 THEN Today ELSE body.date

\* C11: a submission for a (user, date) pair that already has a record is
\* answered 409 and leaves footprints, transactions and wallets as they were,
\* in every state the concurrent handlers reach.
C11_DuplicateRejected ==
    \A body \in SubmitBodies :
        ( /\ StrOf(body, "user") # ""
          /\ alreadySubmitted(footprints, body.user, DateOf(body)) )
        =>
        LET o == submitStart(Store, body)
        IN  /\ o.r.status = 409
            /\ o.r.pc = "idle"
            /\ o.S = Store

\* C11's case: a submission has been answered 409 while a record exists and
\* nothing was awarded for it.
C11_Witness ==
    \E p \in Procs :
        /\ req[p].status = 409
        /\ Len(footprints) = 1
        /\ Len(txns) = 1
        /\ Len(wallets) = 1
        /\ started = 2
        /\ Quiescent

\* The part of the ledger and of the wallets an award run from S changed.
LedgerEffect(S, o) ==
    [appended |-> SubSeq(o.S.txns, Len(S.txns) + 1, Len(o.S.txns)),
     kept |-> SubSeq(o.S.txns, 1, Len(S.txns)) = S.txns,
     wallets |-> o.S.wallets,
     status |-> o.r.status]

\* C12: from the same store, the award a submission triggers and the manual
\* award of the same user, date and (stored total) score append the same
\* transactions and leave the same wallets, with one request at a time.
C12_SubmitAwardIsManualAward ==
    \A body \in LedgerSubmitBodies :
        ( /\ StrOf(body, "user") # ""
          /\ ~alreadySubmitted(footprints, body.user, DateOf(body)) )
        =>
        \A k \in Picks :
          LET start == submitStart(Store, body)
              saved == submitSave(start.S, start.r)
              viaSubmit == Run(saved.S, saved.r, k)
              manual == manualStart(Store,
                            [user |-> body.user, date |-> DateOf(body),
                             score |-> saved.r.score], k)
              viaManual == Run(manual.S, manual.r, k)
          IN  LedgerEffect(Store, viaSubmit) = LedgerEffect(Store, viaManual)

\* C12's case: a submission has been awarded base and bonus credits (a
\* record of an earlier day had the greater score).
C12_Witness ==
    /\ req[SeqProc].status = 200
    /\ Len(footprints) = 2
    /\ Len(txns) = 3
    /\ txns[2].type = "earn" /\ txns[3].type = "bonus"
    /\ Len(wallets) = 1 /\ wallets[1].credits = txns[1].amount + txns[2].amount + 2

\* C13: a deletion answers 200 whether or not a record has the id, a second
\* deletion of the same id answers 200 and leaves the store as the first
\* left it, and a deletion changes no wallet and no transaction.
C13_DeleteIdempotent ==
    \A id \in Ids :
        LET first == deleteFootprint(Store, id)
            second == deleteFootprint(first.S, id)
        IN  /\ first.r.status = 200
            /\ second.r.status = 200
            /\ second.S = first.S
            /\ first.S.wallets = wallets
            /\ first.S.txns = txns
            /\ \A i \in 1..Len(first.S.footprints) : first.S.footprints[i].id # id

\* C13's case: a record was stored and awarded, and its deletion has been
\* answered 200: no record is left, the wallet and the transaction are.
C13_Witness ==
    /\ req[SeqProc].status = 200
    /\ started = 2
    /\ nextId = 2
    /\ footprints = <<>>
    /\ Len(txns) = 1
    /\ Len(wallets) = 1 /\ wallets[1].credits = txns[1].amount

\* The admin summary the process was answered with, the store unchanged since.
HasSummary(p) == req[p].reply # <<>>
SummaryOf(p) == req[p].reply[1]

\* C14: the summary lists every user of the wallets or of the footprints
\* once; a listed user's entries is the number of the user's footprint
\* records, and averageScore is null exactly when that number is 0 and the
\* mean of the records' total scores (sum over n) otherwise, 0 included.
C14_SummaryOuterJoin ==
    \A p \in Procs :
        HasSummary(p) =>
            LET emps == SummaryOf(p).employees
            IN  /\ { emps[i].user : i \in 1..Len(emps) }
                      = { wallets[i].user : i \in 1..Len(wallets) }
                        \cup { footprints[i].user : i \in 1..Len(footprints) }
                /\ \A i, j \in 1..Len(emps) : emps[i].user = emps[j].user => i = j
                /\ \A i \in 1..Len(emps) :
                      LET n == Cardinality(FootprintsOf(emps[i].user))
                      IN  /\ emps[i].entries = n
                          /\ (emps[i].averageScore = <<>>) <=> (n = 0)
                          /\ n > 0 => emps[i].averageScore =
                                <<[sum |-> SumScores(footprints, emps[i].user), n |-> n]>>

\* C19: the ranking holds the listed users once each, in non-increasing
\* order of credits, ranks 1..N by position, users of equal credits in their
\* employees[] order; totalCredits is the sum of the listed users' credits.
C19_Ranking ==
    \A p \in Procs :
        HasSummary(p) =>
            LET emps == SummaryOf(p).employees
                rk == SummaryOf(p).ranking
                PosIn(u) == CHOOSE i \in 1..Len(emps) : emps[i].user = u
            IN  /\ Len(rk) = Len(emps)
                /\ \A i \in 1..Len(emps) :
                      Cardinality({ j \in 1..Len(rk) :
                          rk[j] = [rank |-> j] @@ emps[i] }) = 1
                /\ \A j \in 1..Len(rk) : rk[j].rank = j
                /\ \A i, j \in 1..Len(rk) :
                      i < j =>
                        /\ rk[i].credits >= rk[j].credits
                        /\ rk[i].credits = rk[j].credits =>
                              PosIn(rk[i].user) < PosIn(rk[j].user)
                /\ SummaryOf(p).totalCredits
                      = totalCreditsOf(emps)
                /\ SummaryOf(p).totalCredits
                      = totalCreditsOf(wallets)

\* C19's case: a summary of two users whose ranking is not their
\* employees[] order (the second has more credits).
C19_Witness ==
    \E p \in Procs :
        /\ HasSummary(p)
        /\ Len(SummaryOf(p).ranking) = 2
        /\ SummaryOf(p).employees[1].credits < SummaryOf(p).employees[2].credits
        /\ SummaryOf(p).ranking[1].user = SummaryOf(p).employees[2].user

\* The balance of user u among the wallets ws; no wallet counts as 0.
CreditsIn(ws, u) ==
    IF findWallet(ws, u) = 0 THEN 0 ELSE ws[findWallet(ws, u)].credits

\* The award whose locals are r (base and bonus computed, nothing inserted
\* yet), run from the store S with no other request's step in between.
AwardFrame(S, r, k) ==
    LET o == Run(S, r, k)
        appended == SubSeq(o.S.txns, Len(S.txns) + 1, Len(o.S.txns))
    IN  o.r.status = 200 =>
        /\ SubSeq(o.S.txns, 1, Len(S.txns)) = S.txns
        /\ Len(appended) = IF r.bonus > 0 THEN 2 ELSE 1
        /\ appended[1].type = "earn"
        /\ appended[1].amount = r.base
        /\ appended[1].user = r.user
        /\ r.bonus > 0 =>
              /\ appended[2].type = "bonus"
              /\ appended[2].amount = r.bonus
              /\ appended[2].user = r.user
        /\ CreditsIn(o.S.wallets, r.user) = CreditsIn(S.wallets, r.user) + r.base + r.bonus
        /\ \A i \in 1..Len(S.wallets) :
              S.wallets[i].user # r.user => o.S.wallets[i] = S.wallets[i]
        /\ \A i \in 1..Len(o.S.wallets) :
              i > Len(S.wallets) => o.S.wallets[i].user = r.user
        /\ o.S.footprints = S.footprints

\* C15: with one request at a time, a successful award (manual, or of a
\* submission once its record is saved) appends one earn transaction of the
\* base credits, one bonus transaction of the bonus credits exactly when the
\* bonus is above 0, raises the user's balance by base + bonus and leaves
\* the other users' wallets, the earlier transactions and the footprint
\* records as they were.
C15_AwardFrame ==
    /\ \A body \in ManualBodies, k \in Picks :
          LET m == manualStart(Store, body, k)
          IN  m.r.pc = "insert" => AwardFrame(m.S, m.r, k)
    /\ \A body \in LedgerSubmitBodies, k \in Picks :
          LET start == submitStart(Store, body)
          IN  start.r.pc = "save" =>
                LET saved == submitSave(start.S, start.r)
                    looked == awardPrevious(saved.S, saved.r, k)
                IN  AwardFrame(looked.S, looked.r, k)

\* C15's case: a manual award has been granted base and bonus credits for a
\* user whose one record, of an earlier day, has the greater score.
C15_Witness ==
    /\ req[SeqProc].status = 200
    /\ Len(footprints) = 1
    /\ Len(txns) = 3
    /\ txns[2].type = "earn" /\ txns[3].type = "bonus" /\ txns[3].amount = 2
    /\ Len(wallets) = 1
    /\ wallets[1].credits = txns[1].amount + txns[2].amount + txns[3].amount

\* The four emission fields of a footprint record.
EmissionFields ==
    {"travel_emissions", "food_emissions", "energy_emissions", "total_score"}

\* C16: the record a submission stores holds each emission the body gives
\* as a number exactly as given and each other emission (absent, or not a
\* number) as deriveEmissions computes it from the body; the award's score
\* is the stored total.
C16_BackfillAndOverride ==
    \A body \in LedgerSubmitBodies :
        ( /\ StrOf(body, "user") # ""
          /\ ~alreadySubmitted(footprints, body.user, DateOf(body)) )
        =>
        LET start == submitStart(Store, body)
            saved == submitSave(start.S, start.r)
            done == Run(saved.S, saved.r, 1)
            doc == saved.S.footprints[Len(saved.S.footprints)]
            computed == EmissionsOfInputs(body)
            earned == saved.S.txns
        IN  /\ Len(saved.S.footprints) = Len(footprints) + 1
            /\ \A f \in EmissionFields :
                  doc[f] = IF f \in DOMAIN body /\ body[f] # Text
                           THEN body[f] ELSE computed[f]
            /\ saved.r.score = doc.total_score
            /\ done.S.txns[Len(txns) + 1].reason[3] = toFixed1(doc.total_score)
            /\ done.S.txns[Len(txns) + 1].amount = baseCreditsForScore(doc.total_score)

\* C16's case: a record stored from a body that gave its travel emissions
\* as a number and its total as a text: the first kept, the total computed.
C16_Witness ==
    /\ req[SeqProc].status = 200
    /\ Len(footprints) = 1
    /\ footprints[1].travel_emissions = 150
    /\ footprints[1].food_emissions = 289
    /\ footprints[1].energy_emissions = 7
    /\ footprints[1].total_score = 296
    /\ Len(txns) = 1 /\ txns[1].amount = 5

\* C17: in every state the concurrent handlers reach no user has two
\* wallets; a step of ensureWallet (its find, its create, the find of a
\* wallet lookup) leaves the wallets as they are or adds one wallet of its
\* user with balance 0.
C17_OneWalletPerUser ==
    /\ \A i, j \in 1..Len(wallets) : wallets[i].user = wallets[j].user => i = j
    /\ \A p \in Procs :
          req[p].pc \in {"ensure", "create"} =>
              LET o == StepAt(Store, req[p], 1)
              IN  \/ o.S.wallets = wallets
                  \/ o.S.wallets = Append(wallets, [user |-> req[p].user, credits |-> 0])
    /\ \A u \in Users : walletStart(Store, u).S.wallets = wallets

\* C17's case: two requests found no wallet of the user and both went on to
\* create it; the second create was refused (answered 500), one wallet exists.
C17_Witness ==
    \E p \in Procs :
        /\ req[p].status = 500
        /\ Len(wallets) = 1
        /\ Quiescent

\* C18: every step leaves the transactions recorded so far as they are, in
\* their place, and every transaction recorded is an earn of 1, 3 or 5 or a
\* bonus of 2.
C18_LedgerAppendOnly ==
    [][/\ Len(txns') >= Len(txns)
       /\ SubSeq(txns', 1, Len(txns)) = txns
       /\ \A i \in 1..Len(txns') :
             \/ txns'[i].type = "earn" /\ txns'[i].amount \in {1, 3, 5}
             \/ txns'[i].type = "bonus" /\ txns'[i].amount = 2]_vars

\* C18's case: an earn, then an earn and a bonus of a manual award are
\* recorded, and the one footprint record has since been deleted.
C18_Witness ==
    /\ Quiescent
    /\ Len(txns) = 3
    /\ txns[1].type = "earn" /\ txns[2].type = "earn"
    /\ txns[3].type = "bonus" /\ txns[3].amount = 2
    /\ footprints = <<>>
    /\ nextId = 2

\* C20: in every state the concurrent handlers reach, a user's balance is at
\* most the sum of the amounts of the user's transactions.
C20_CreditsBackedByLedger ==
    \A u \in Users : CreditsOf(u) <= SumAmounts(txns, u)

\* C20's case: two awards of a user ran interleaved and both completed; one
\* increment was overwritten, the balance is below the ledger's sum.
C20_Witness ==
    /\ Quiescent
    /\ \E u \in Users :
          /\ CreditsOf(u) > 0
          /\ CreditsOf(u) < SumAmounts(txns, u)
          /\ awarded[u] = SumAmounts(txns, u)

====
